---- MODULE Spec2Model ----
(***************************************************************************)
(* State machine of the imagery review front end:                          *)
(*   App.jsx             product list, product record, comparison overlay  *)
(*   ProductDetail.jsx   source selection, active candidate, generation    *)
(*   ComparisonModal.jsx two-pane viewer: zoom, drag, sync, navigation     *)
(* Every event handler is one action.  A component's state updates and the *)
(* effects of the render they cause are committed within the action of the *)
(* handler that made them.                                                 *)
(* Scales are counted in thousandths (1.0 is 1000), pointer positions and  *)
(* translations in whole pixels.                                           *)
(***************************************************************************)
EXTENDS Integers, Sequences, FiniteSets

\* ------------------------------------------------------------- bounds
\* Number of products the Catalog Service knows.
NumProducts == 3
\* Generated images a product can accumulate on the server.
MaxGenerated == 2
\* Requests of one kind that may be outstanding at once.
MaxPending == 1
\* Largest absolute translation a drag may produce.
MaxTranslate == 2
\* Longest candidate list a comparison is opened on when navigation is
\* explored.
MaxCandidates == 4

\* ---------------------------------------------------- program constants
\* useState({ scale: 1, x: 0, y: 0 })
InitScale == 1000
\* Math.max(0.5, ...)
MinScale == 500
\* Math.min(..., 5)
MaxScale == 5000
\* e.deltaY * -0.001, in thousandths per unit of deltaY
WheelFactor == -1

\* ------------------------------------------------------------- inputs
\* deltaY of the wheel events tried: fine and coarse steps, both signs, and
\* steps far larger than the whole scale range.
WheelDeltas == {-100000, -1000, 1000, 100000}
\* The wheel events tried when the whole application runs: one zoom step
\* larger than the scale range.
CoarseWheelDeltas == {-100000}
\* clientX, clientY of the pointer events tried.
Pointers == {<<0, 0>>, <<1, 2>>}
\* The pointer events tried when the whole application runs.
CoarsePointers == {<<0, 0>>}
\* e.key of the keydown events tried; "a" stands for every unbound key.
Keys == {"Escape", "ArrowRight", "ArrowLeft", "a"}
Panes == {"src", "ai"}
NoPane == "null"

\* ------------------------------------------------------------ helpers
Min(a, b) == IF a < b THEN a ELSE b
Max(a, b) == IF a > b THEN a ELSE b

\* ------------------------------------------------------------ catalog
Cupids == 1..NumProducts
NoCupid == 0
\* ghost_images of a product: product 1 has two source images, product 2
\* one, any further product none.  An image locator is a number.
GhostImagesOf(c) ==
    IF c = 1 THEN <<11, 12>> ELSE IF c = 2 THEN <<21>> ELSE <<>>
\* generated_images of a product that has n of them; each is identified by
\* its path.
GeneratedImagesOf(c, n) == [i \in 1..n |-> 100 * c + i]
\* The record GET /api/product/<cupid> answers with when the product has n
\* generated images.
ProductRecord(c, n) ==
    [cupid_name |-> c,
     ghost_images |-> GhostImagesOf(c),
     generated_images |-> GeneratedImagesOf(c, n)]
NoData == [cupid_name |-> NoCupid, ghost_images |-> <<>>, generated_images |-> <<>>]

VARIABLES
    \* Catalog and Generation Service
    generatedCount,      \* per product, the generated images stored
    productFetches,      \* GET /api/product/<cupid> requests in flight
    generateRequests,    \* POST /api/generate requests in flight
    listFetches,         \* GET /api/products requests in flight
    \* App.jsx
    products,
    loading,
    selectedCupid,
    currentProductData,
    compareModalOpen,
    srcListForCompare,
    srcIndexForCompare,
    aiListForCompare,
    aiIndexForCompare,
    \* ProductDetail.jsx
    selectedSources,
    lastClickedIndex,
    activeGenIndex,
    generating,
    \* ComparisonModal.jsx: the mounted component instances (none or one)
    modal,
    \* what the step just taken emitted: an alert dialog, a console.error
    \* line, or nothing
    signal

serviceVars == <<generatedCount, productFetches, generateRequests, listFetches>>
compareVars == <<compareModalOpen, srcListForCompare, srcIndexForCompare,
                 aiListForCompare, aiIndexForCompare>>
appVars == <<products, loading, selectedCupid, currentProductData>>
detailVars == <<selectedSources, lastClickedIndex, activeGenIndex, generating>>
vars == <<serviceVars, appVars, compareVars, detailVars, modal, signal>>

\* The values of signal.
NoSignal == "none"
Alert == "alert"
ConsoleError == "console.error"


\* ==================================================== ComparisonModal.jsx
\* JavaScript's (i + d) % n on a cursor i: NaN when n is 0 and when i is NaN.
NotANumber == -1
JsMod(i, d, n) ==
    IF n = 0 \/ i = NotANumber THEN NotANumber ELSE (i + d) % n

\* The arrow buttons of the two panes.
ArrowButtons == {<<pane, dir>> : pane \in Panes, dir \in {"prev", "next"}}
NoArrow == <<>>

\* MountModal starting the source pane zoomed and dragged.
MountModalZoomed(initialSourceIndex, initialAiIndex) ==
    [srcIndex |-> initialSourceIndex,
     aiIndex |-> initialAiIndex,
     srcState |-> [scale |-> 2 * InitScale, x |-> 1, y |-> 0],
     aiState |-> [scale |-> InitScale, x |-> 0, y |-> 0],
     isSynced |-> FALSE,
     draggingPane |-> "src",
     dragStart |-> [x |-> 0, y |-> 0],
     pressedArrow |-> NoArrow]

\* The component's state right after mounting: the useState and useRef
\* initial values.  pressedArrow is state of the overlay's DOM: the arrow
\* button the mouse button is being held down on.
MountModal(initialSourceIndex, initialAiIndex) ==
    [srcIndex |-> initialSourceIndex,
     aiIndex |-> initialAiIndex,
     srcState |-> [scale |-> InitScale, x |-> 0, y |-> 0],
     aiState |-> [scale |-> InitScale, x |-> 0, y |-> 0],
     isSynced |-> FALSE,
     draggingPane |-> NoPane,
     dragStart |-> [x |-> 0, y |-> 0],
     pressedArrow |-> NoArrow]

\* Source Nav, AI Nav; n is the length of the list the cursor runs over.
\* nextSrc moving the candidate cursor along with the source cursor.
nextSrcBothAxes(s, n) ==
    [s EXCEPT !.srcIndex = JsMod(s.srcIndex, 1, n),
              !.aiIndex = IF s.aiIndex = 0 THEN 1 ELSE 0]
nextSrc(s, n) == [s EXCEPT !.srcIndex = JsMod(s.srcIndex, 1, n)]
\* prevSrc also putting the source pane back to the initial transform.
prevSrcResetting(s, n) ==
    [s EXCEPT !.srcIndex = JsMod(s.srcIndex, n - 1, n),
              !.srcState = [scale |-> InitScale, x |-> 0, y |-> 0]]
prevSrc(s, n) == [s EXCEPT !.srcIndex = JsMod(s.srcIndex, n - 1, n)]
\* nextAi stopping at the last image instead of wrapping.
nextAiNoWrap(s, n) == [s EXCEPT !.aiIndex = Min(s.aiIndex + 1, n - 1)]
nextAi(s, n) == [s EXCEPT !.aiIndex = JsMod(s.aiIndex, 1, n)]
prevAi(s, n) == [s EXCEPT !.aiIndex = JsMod(s.aiIndex, n - 1, n)]

\* updateState without the upper clamp.
updateStateNoCeiling(prev, delta) ==
    [prev EXCEPT !.scale = Max(MinScale, prev.scale + delta)]

\* updateState without the lower clamp.
updateStateNoFloor(prev, delta) ==
    [prev EXCEPT !.scale = Min(prev.scale + delta, MaxScale)]

\* updateState of handleWheel: the pane state zoomed by delta.
updateState(prev, delta) ==
    [prev EXCEPT !.scale = Min(Max(MinScale, prev.scale + delta), MaxScale)]

\* handleWheel zooming both panes whatever isSynced says.
handleWheelBothPanes(s, deltaY, pane) ==
    LET delta == deltaY * WheelFactor
    IN  [s EXCEPT !.srcState = updateState(s.srcState, delta),
                  !.aiState = updateState(s.aiState, delta)]

\* handleWheel also moving each zoomed pane back to the origin.
handleWheelRecentering(s, deltaY, pane) ==
    LET delta == deltaY * WheelFactor
        zoomed(prev) == [updateState(prev, delta) EXCEPT !.x = 0, !.y = 0]
    IN  IF s.isSynced
        THEN [s EXCEPT !.srcState = zoomed(s.srcState),
                       !.aiState = zoomed(s.aiState)]
        ELSE IF pane = "src"
             THEN [s EXCEPT !.srcState = zoomed(s.srcState)]
             ELSE [s EXCEPT !.aiState = zoomed(s.aiState)]

handleWheel(s, deltaY, pane) ==
    LET delta == deltaY * WheelFactor
    IN  IF s.isSynced
        THEN [s EXCEPT !.srcState = updateState(s.srcState, delta),
                       !.aiState = updateState(s.aiState, delta)]
        ELSE IF pane = "src"
             THEN [s EXCEPT !.srcState = updateState(s.srcState, delta)]
             ELSE [s EXCEPT !.aiState = updateState(s.aiState, delta)]

\* handleMouseDown recording the pointer position alone, not its offset
\* from the pane's translation.
handleMouseDownNoOffset(s, client, pane) ==
    [s EXCEPT !.draggingPane = pane,
              !.dragStart = [x |-> client[1], y |-> client[2]]]

handleMouseDown(s, client, pane) ==
    LET currentState == IF pane = "src" THEN s.srcState ELSE s.aiState
    IN  [s EXCEPT !.draggingPane = pane,
                  !.dragStart = [x |-> client[1] - currentState.x,
                                 y |-> client[2] - currentState.y]]

\* dragUpdate taking the pointer position for the translation.
dragUpdateToPointer(s, client) == [x |-> client[1], y |-> client[2]]

\* The translation a pointer move drags to.
dragUpdate(s, client) ==
    [x |-> client[1] - s.dragStart.x, y |-> client[2] - s.dragStart.y]

\* handleMouseMove moving the dragged pane only, whatever isSynced says.
handleMouseMoveOnePane(s, client) ==
    IF s.draggingPane = NoPane
    THEN s
    ELSE LET update == dragUpdate(s, client)
             moved(prev) == [prev EXCEPT !.x = update.x, !.y = update.y]
         IN  IF s.draggingPane = "src"
             THEN [s EXCEPT !.srcState = moved(s.srcState)]
             ELSE [s EXCEPT !.aiState = moved(s.aiState)]

\* handleMouseMove without the early return: with no drag active the move
\* goes to the candidate pane, or to both in sync mode.
handleMouseMoveAlways(s, client) ==
    LET update == dragUpdate(s, client)
        moved(prev) == [prev EXCEPT !.x = update.x, !.y = update.y]
    IN  IF s.isSynced
        THEN [s EXCEPT !.srcState = moved(s.srcState),
                       !.aiState = moved(s.aiState)]
        ELSE IF s.draggingPane = "src"
             THEN [s EXCEPT !.srcState = moved(s.srcState)]
             ELSE [s EXCEPT !.aiState = moved(s.aiState)]

handleMouseMove(s, client) ==
    IF s.draggingPane = NoPane
    THEN s
    ELSE LET update == dragUpdate(s, client)
             moved(prev) == [prev EXCEPT !.x = update.x, !.y = update.y]
         IN  IF s.isSynced
             THEN [s EXCEPT !.srcState = moved(s.srcState),
                            !.aiState = moved(s.aiState)]
             ELSE IF s.draggingPane = "src"
                  THEN [s EXCEPT !.srcState = moved(s.srcState)]
                  ELSE [s EXCEPT !.aiState = moved(s.aiState)]

\* handleMouseUp also putting both panes back to the initial transform.
handleMouseUpResetting(s) ==
    [s EXCEPT !.draggingPane = NoPane,
              !.srcState = [scale |-> InitScale, x |-> 0, y |-> 0],
              !.aiState = [scale |-> InitScale, x |-> 0, y |-> 0]]

handleMouseUp(s) == [s EXCEPT !.draggingPane = NoPane]

\* The sync button also copying the source pane's transform to the other.
toggleSyncReconciling(s) ==
    [s EXCEPT !.isSynced = ~s.isSynced, !.aiState = s.srcState]

\* onClick of the sync button
toggleSync(s) == [s EXCEPT !.isSynced = ~s.isSynced]

\* getStyle with the easing transition whether or not a drag is active.
getStyleTransitionAlwaysSmooth(s) == "transform 0.1s ease-out"

\* transition of getStyle
getStyleTransition(s) ==
    IF s.draggingPane # NoPane THEN "none" ELSE "transform 0.1s ease-out"

\* handleKey with the arrow keys driving the source cursor.
handleKeyNavSource(s, key, n) ==
    IF key = "ArrowRight" THEN nextSrc(s, n)
    ELSE IF key = "ArrowLeft" THEN prevSrc(s, n)
    ELSE s

\* handleKey, on the component's state; Escape is onClose and acts on App.
handleKeyNav(s, key, n) ==
    IF key = "ArrowRight" THEN nextAi(s, n)
    ELSE IF key = "ArrowLeft" THEN prevAi(s, n)
    ELSE s


\* ========================================================= ProductDetail.jsx
\* App renders ProductDetail when selectedCupid && currentProductData.
DetailMounted == selectedCupid # NoCupid /\ currentProductData # NoData

\* seedSelection selecting every source image of the record.
seedSelectionAll(data) == data.ghost_images
\* seedSelection keeping the selection there was.
seedSelectionStale(data) == selectedSources
\* useEffect(..., [data]): the selection the arrival of a record seeds.
seedSelection(data) ==
    IF Len(data.ghost_images) > 0 THEN <<data.ghost_images[1]>> ELSE <<>>

\* selectedSources.includes(url)
Includes(list, url) == \E k \in 1..Len(list) : list[k] = url
\* Without removing nothing.
WithoutNothing(list, url) == list
\* selectedSources.filter(s => s !== url)
Without(list, url) == SelectSeq(list, LAMBDA e : e # url)

\* clickSelection adding to the selection on a plain click.
clickSelectionAppending(list, url, isMultiSelect) ==
    IF Includes(list, url) THEN Without(list, url) ELSE Append(list, url)
\* handleSourceClick: the selection after a click on url; isMultiSelect is
\* e.metaKey || e.ctrlKey || e.shiftKey.
clickSelection(list, url, isMultiSelect) ==
    IF isMultiSelect
    THEN IF Includes(list, url) THEN Without(list, url) ELSE Append(list, url)
    ELSE <<url>>

hasSelection == Len(selectedSources) > 0
\* activeGen = data.generated_images?.[activeGenIndex] is defined
hasActiveGen == activeGenIndex < Len(currentProductData.generated_images)
\* The Compare button disabled on a missing active candidate only.
CompareEnabledWithoutSelection == DetailMounted /\ hasActiveGen

\* The Compare button is rendered and not disabled.
CompareEnabled == DetailMounted /\ hasSelection /\ hasActiveGen
\* The Generate button not disabled while a request is in flight.
GenerateEnabledWhileGenerating == DetailMounted
\* The Generate button is rendered and not disabled.
GenerateEnabled == DetailMounted /\ ~generating


\* ================================================================ actions
Session == modal[1]
SessionOpen == Len(modal) = 1

\* A request count one higher, several identical outstanding requests
\* counting as MaxPending.
OneMore(n) == Min(n + 1, MaxPending)

\* ---------------------------------------------------------------- App.jsx
\* fetchProducts: GET /api/products answers.
ListResponse ==
    /\ listFetches > 0
    /\ listFetches' = listFetches - 1
    /\ products' = Cupids
    /\ loading' = FALSE
    /\ signal' = NoSignal
    /\ UNCHANGED <<generatedCount, productFetches, generateRequests,
                   selectedCupid, currentProductData, compareVars, detailVars, modal>>

\* fetchProducts: the request is rejected (catch: console.error).
ListFails ==
    /\ listFetches > 0
    /\ listFetches' = listFetches - 1
    /\ loading' = FALSE
    /\ signal' = ConsoleError
    /\ UNCHANGED <<generatedCount, productFetches, generateRequests, products,
                   selectedCupid, currentProductData, compareVars, detailVars, modal>>

\* handleSelectProduct up to its await: a click on one of cupids in the
\* sidebar, which the comparison overlay covers while it is open.
SelectProduct(cupids) ==
    \E c \in products \cap cupids :
        /\ ~compareModalOpen
        /\ productFetches[c] < MaxPending
        /\ selectedCupid' = c
        /\ productFetches' = [productFetches EXCEPT ![c] = @ + 1]
        /\ signal' = NoSignal
        /\ UNCHANGED <<generatedCount, generateRequests, listFetches, products, loading,
                       currentProductData, compareVars, detailVars, modal>>

\* ProductResponse also dismissing the comparison overlay.
ProductResponseClosing ==
    \E c \in Cupids :
        /\ productFetches[c] > 0
        /\ productFetches' = [productFetches EXCEPT ![c] = @ - 1]
        /\ LET data == ProductRecord(c, generatedCount[c])
           IN  /\ currentProductData' = data
               /\ selectedSources' = seedSelection(data)
               /\ lastClickedIndex' = 0
               /\ activeGenIndex' = 0
        /\ compareModalOpen' = FALSE
        /\ modal' = <<>>
        /\ signal' = NoSignal
        /\ UNCHANGED <<generatedCount, generateRequests, listFetches, products, loading,
                       selectedCupid, generating, srcListForCompare, srcIndexForCompare,
                       aiListForCompare, aiIndexForCompare>>

\* ProductResponse re-seeding the selection only when the record is that of
\* another product than the one on display.
ProductResponseSeedingOnSwitch ==
    \E c \in Cupids :
        /\ productFetches[c] > 0
        /\ productFetches' = [productFetches EXCEPT ![c] = @ - 1]
        /\ LET data == ProductRecord(c, generatedCount[c])
           IN  /\ currentProductData' = data
               /\ IF c # currentProductData.cupid_name
                  THEN /\ selectedSources' = seedSelection(data)
                       /\ lastClickedIndex' = 0
                       /\ activeGenIndex' = 0
                  ELSE UNCHANGED <<selectedSources, lastClickedIndex, activeGenIndex>>
        /\ signal' = NoSignal
        /\ UNCHANGED <<generatedCount, generateRequests, listFetches, products, loading,
                       selectedCupid, generating, compareVars, modal>>

\* handleSelectProduct after its await: the record arrives,
\* setCurrentProductData(data), and ProductDetail's useEffect([data]) runs.
ProductResponse ==
    \E c \in Cupids :
        /\ productFetches[c] > 0
        /\ productFetches' = [productFetches EXCEPT ![c] = @ - 1]
        /\ LET data == ProductRecord(c, generatedCount[c])
           IN  /\ currentProductData' = data
               /\ selectedSources' = seedSelection(data)
               /\ lastClickedIndex' = 0
               /\ activeGenIndex' = 0
        /\ signal' = NoSignal
        /\ UNCHANGED <<generatedCount, generateRequests, listFetches, products, loading,
                       selectedCupid, generating, compareVars, modal>>

\* handleSelectProduct: the request is rejected (catch: console.error).
ProductFails ==
    \E c \in Cupids :
        /\ productFetches[c] > 0
        /\ productFetches' = [productFetches EXCEPT ![c] = @ - 1]
        /\ signal' = ConsoleError
        /\ UNCHANGED <<generatedCount, generateRequests, listFetches, appVars,
                       compareVars, detailVars, modal>>

\* onCompare(srcIdx, aiIdx) under the record data: the comparison state it
\* sets.
onCompare(data, srcIdx, aiIdx) ==
    [srcListForCompare |-> data.ghost_images,
     srcIndexForCompare |-> srcIdx,
     aiListForCompare |-> data.generated_images,
     aiIndexForCompare |-> aiIdx,
     compareModalOpen |-> TRUE]

\* onClick of the Compare button of ProductDetail:
\* onCompare(lastClickedIndex, activeGenIndex); ComparisonModal mounts when
\* the overlay was not rendered before.  The button can be activated from
\* the keyboard while the overlay is open.
CompareClick ==
    /\ CompareEnabled
    /\ LET set == onCompare(currentProductData, lastClickedIndex, activeGenIndex)
       IN  /\ srcListForCompare' = set.srcListForCompare
           /\ srcIndexForCompare' = set.srcIndexForCompare
           /\ aiListForCompare' = set.aiListForCompare
           /\ aiIndexForCompare' = set.aiIndexForCompare
           /\ compareModalOpen' = set.compareModalOpen
           /\ modal' = IF set.compareModalOpen /\ ~compareModalOpen
                       THEN <<MountModal(set.srcIndexForCompare, set.aiIndexForCompare)>>
                       ELSE IF set.compareModalOpen THEN modal ELSE <<>>
    /\ signal' = NoSignal
    /\ UNCHANGED <<serviceVars, appVars, detailVars>>

\* onClose also abandoning the generation request in flight.
onCloseCancelling ==
    /\ compareModalOpen' = FALSE
    /\ modal' = <<>>
    /\ generateRequests' = <<>>
    /\ generating' = FALSE
    /\ signal' = NoSignal
    /\ UNCHANGED <<generatedCount, productFetches, listFetches, appVars,
                   selectedSources, lastClickedIndex, activeGenIndex,
                   srcListForCompare, srcIndexForCompare, aiListForCompare,
                   aiIndexForCompare>>

\* onClose: setCompareModalOpen(false); ComparisonModal unmounts.
onClose ==
    /\ compareModalOpen' = FALSE
    /\ modal' = <<>>
    /\ signal' = NoSignal
    /\ UNCHANGED <<serviceVars, appVars, detailVars, srcListForCompare,
                   srcIndexForCompare, aiListForCompare, aiIndexForCompare>>

\* ------------------------------------------------------ ProductDetail.jsx
\* The modifier keys of a click event.
Modifiers == {[metaKey |-> m, ctrlKey |-> c, shiftKey |-> s] :
                 m \in BOOLEAN, c \in BOOLEAN, s \in BOOLEAN}
\* isMultiSelect ignoring the shift key.
isMultiSelectNoShift(e) == e.metaKey \/ e.ctrlKey
isMultiSelect(e) == e.metaKey \/ e.ctrlKey \/ e.shiftKey

\* handleSourceClick: a click on the source thumbnail at index i, with the
\* modifier keys of one of events.
SourceClick(events) ==
    \E i \in 0..(Len(currentProductData.ghost_images) - 1), e \in events :
        /\ DetailMounted
        /\ ~compareModalOpen
        /\ selectedSources' = clickSelection(selectedSources,
                                  currentProductData.ghost_images[i + 1],
                                  isMultiSelect(e))
        /\ lastClickedIndex' = i
        /\ signal' = NoSignal
        /\ UNCHANGED <<serviceVars, appVars, compareVars, activeGenIndex,
                       generating, modal>>

\* setActiveGenIndex(i): a click on the generated thumbnail at index i.
GeneratedClick ==
    \E i \in 0..(Len(currentProductData.generated_images) - 1) :
        /\ DetailMounted
        /\ ~compareModalOpen
        /\ activeGenIndex' = i
        /\ signal' = NoSignal
        /\ UNCHANGED <<serviceVars, appVars, compareVars, selectedSources,
                       lastClickedIndex, generating, modal>>

\* Generated images of product c stored or requested.
GeneratedOrRequested(c) ==
    generatedCount[c]
        + Cardinality({k \in 1..Len(generateRequests) : generateRequests[k].cupid_name = c})

\* handleGenerateClick and handleGenerate up to the await of the POST; the
\* user stops asking once a product has MaxGenerated images.
GenerateClick ==
    /\ GenerateEnabled
    /\ selectedCupid # NoCupid => GeneratedOrRequested(selectedCupid) < MaxGenerated
    /\ IF selectedCupid = NoCupid
       THEN UNCHANGED <<generateRequests, generating>>
       ELSE /\ generating' = TRUE
            /\ generateRequests' = Append(generateRequests,
                   [cupid_name |-> selectedCupid, active_sources |-> selectedSources])
    /\ signal' = NoSignal
    /\ UNCHANGED <<generatedCount, productFetches, listFetches, appVars, compareVars,
                   selectedSources, lastClickedIndex, activeGenIndex, modal>>

\* The sequence without its k-th element.
RemoveAt(seq, k) == [j \in 1..(Len(seq) - 1) |-> IF j < k THEN seq[j] ELSE seq[j + 1]]

\* GenerateResponse refetching the product selected when the answer comes.
GenerateResponseRefetchingSelected ==
    \E k \in 1..Len(generateRequests) :
        LET c == generateRequests[k].cupid_name
        IN  /\ generateRequests' = RemoveAt(generateRequests, k)
            /\ generatedCount' = [generatedCount EXCEPT ![c] = @ + 1]
            /\ productFetches' = [productFetches EXCEPT ![selectedCupid] = OneMore(@)]
            /\ listFetches' = OneMore(listFetches)
            /\ generating' = FALSE
            /\ signal' = NoSignal
            /\ UNCHANGED <<products, loading, selectedCupid, currentProductData,
                           compareVars, selectedSources, lastClickedIndex,
                           activeGenIndex, modal>>

\* The POST answers: handleGenerate goes on with handleSelectProduct of the
\* cupid it was called under and fetchProducts, then handleGenerateClick
\* clears generating.
GenerateResponse ==
    \E k \in 1..Len(generateRequests) :
        LET c == generateRequests[k].cupid_name
        IN  /\ generateRequests' = RemoveAt(generateRequests, k)
            /\ generatedCount' = [generatedCount EXCEPT ![c] = @ + 1]
            /\ selectedCupid' = c
            /\ productFetches' = [productFetches EXCEPT ![c] = OneMore(@)]
            /\ listFetches' = OneMore(listFetches)
            /\ generating' = FALSE
            /\ signal' = NoSignal
            /\ UNCHANGED <<products, loading, currentProductData, compareVars,
                           selectedSources, lastClickedIndex, activeGenIndex, modal>>

\* GenerateRefused leaving the in-flight flag set.
GenerateRefusedKeepingFlag ==
    \E k \in 1..Len(generateRequests) :
        LET c == generateRequests[k].cupid_name
        IN  /\ generateRequests' = RemoveAt(generateRequests, k)
            /\ selectedCupid' = c
            /\ productFetches' = [productFetches EXCEPT ![c] = OneMore(@)]
            /\ listFetches' = OneMore(listFetches)
            /\ signal' = NoSignal
            /\ UNCHANGED <<generatedCount, products, loading, currentProductData,
                           compareVars, detailVars, modal>>

\* The POST answers with an error status: fetch resolves, the response is
\* not looked at, and handleGenerate goes on as after a success; nothing was
\* generated.
GenerateRefused ==
    \E k \in 1..Len(generateRequests) :
        LET c == generateRequests[k].cupid_name
        IN  /\ generateRequests' = RemoveAt(generateRequests, k)
            /\ selectedCupid' = c
            /\ productFetches' = [productFetches EXCEPT ![c] = OneMore(@)]
            /\ listFetches' = OneMore(listFetches)
            /\ generating' = FALSE
            /\ signal' = NoSignal
            /\ UNCHANGED <<generatedCount, products, loading, currentProductData,
                           compareVars, selectedSources, lastClickedIndex,
                           activeGenIndex, modal>>

\* GenerateFails leaving the in-flight flag set.
GenerateFailsKeepingFlag ==
    \E k \in 1..Len(generateRequests) :
        /\ generateRequests' = RemoveAt(generateRequests, k)
        /\ signal' = Alert
        /\ UNCHANGED <<generatedCount, productFetches, listFetches, appVars, compareVars,
                       detailVars, modal>>

\* The POST is rejected: alert("Generation failed"), generating cleared.
GenerateFails ==
    \E k \in 1..Len(generateRequests) :
        /\ generateRequests' = RemoveAt(generateRequests, k)
        /\ generating' = FALSE
        /\ signal' = Alert
        /\ UNCHANGED <<generatedCount, productFetches, listFetches, appVars, compareVars,
                       selectedSources, lastClickedIndex, activeGenIndex, modal>>


\* ---------------------------------------------------- ComparisonModal.jsx
\* Every handler of the overlay leaves the rest of the application alone.
ModalOnly(next) ==
    /\ SessionOpen
    /\ modal' = <<next>>
    /\ signal' = NoSignal
    /\ UNCHANGED <<serviceVars, appVars, compareVars, detailVars>>

\* onWheel of a pane, with deltaY drawn from deltas.
Wheel(deltas) ==
    \E deltaY \in deltas, pane \in Panes :
        ModalOnly(handleWheel(Session, deltaY, pane))

\* onMouseDown of a pane, with the pointer at one of clients.
MouseDown(clients) ==
    \E client \in clients, pane \in Panes :
        ModalOnly(handleMouseDown(Session, client, pane))

\* Translations stay within the modelled range.
InRange(t) ==
    /\ t.x \in -MaxTranslate..MaxTranslate
    /\ t.y \in -MaxTranslate..MaxTranslate

\* onMouseMove of the overlay, with the pointer at one of clients.
MouseMove(clients) ==
    \E client \in clients :
        /\ SessionOpen
        /\ Session.draggingPane # NoPane => InRange(dragUpdate(Session, client))
        /\ ModalOnly(handleMouseMove(Session, client))

\* onMouseUp and onMouseLeave of the overlay.
MouseUp == ModalOnly(handleMouseUp(Session))

\* onClick of the sync button.
ToggleSync == ModalOnly(toggleSync(Session))

\* onClick of the arrow buttons, rendered for a list of more than one image.
NextSrcClick ==
    /\ Len(srcListForCompare) > 1
    /\ ModalOnly(nextSrc(Session, Len(srcListForCompare)))
PrevSrcClick ==
    /\ Len(srcListForCompare) > 1
    /\ ModalOnly(prevSrc(Session, Len(srcListForCompare)))
NextAiClick ==
    /\ Len(aiListForCompare) > 1
    /\ ModalOnly(nextAi(Session, Len(aiListForCompare)))
PrevAiClick ==
    /\ Len(aiListForCompare) > 1
    /\ ModalOnly(prevAi(Session, Len(aiListForCompare)))

\* The arrow buttons of a pane are rendered for a list of more than one
\* image.
ArrowRendered(button) ==
    IF button[1] = "src" THEN Len(srcListForCompare) > 1 ELSE Len(aiListForCompare) > 1

\* onClick of an arrow button, on the component's state.
arrowClick(s, button) ==
    IF button = <<"src", "prev">> THEN prevSrc(s, Len(srcListForCompare))
    ELSE IF button = <<"src", "next">> THEN nextSrc(s, Len(srcListForCompare))
    ELSE IF button = <<"ai", "prev">> THEN prevAi(s, Len(aiListForCompare))
    ELSE nextAi(s, Len(aiListForCompare))

\* The mouse button goes down on an arrow button, with the pointer at one
\* of clients: the button has no onMouseDown, the event bubbles to the
\* onMouseDown of its pane.
ArrowPress(clients) ==
    \E client \in clients, button \in ArrowButtons :
        /\ SessionOpen
        /\ ArrowRendered(button)
        /\ Session.pressedArrow = NoArrow
        /\ ModalOnly([handleMouseDown(Session, client, button[1])
                         EXCEPT !.pressedArrow = button])

\* The mouse button is released over the arrow button it went down on:
\* the mouseup bubbles to the overlay's onMouseUp, then the button's
\* onClick runs.
ArrowRelease ==
    /\ SessionOpen
    /\ Session.pressedArrow # NoArrow
    /\ ArrowRendered(Session.pressedArrow)
    /\ ModalOnly([arrowClick(handleMouseUp(Session), Session.pressedArrow)
                     EXCEPT !.pressedArrow = NoArrow])

\* handleKey on a keydown of key: the window's listener, registered while
\* the overlay is mounted.
KeyDownOn(key) ==
    /\ SessionOpen
    /\ IF key = "Escape"
       THEN onClose
       ELSE ModalOnly(handleKeyNav(Session, key, Len(aiListForCompare)))

KeyDown == \E key \in Keys : KeyDownOn(key)

\* onClick of the overlay's close button.
CloseClick == SessionOpen /\ onClose

\* ========================================================= specifications
\* App after its first render: nothing selected, the product list requested,
\* the overlay closed.  Product 1 starts with one generated image.
Init ==
    /\ generatedCount = [c \in Cupids |-> IF c = 1 THEN 1 ELSE 0]
    /\ productFetches = [c \in Cupids |-> 0]
    /\ generateRequests = <<>>
    /\ listFetches = 1
    /\ products = {}
    /\ loading = TRUE
    /\ selectedCupid = NoCupid
    /\ currentProductData = NoData
    /\ compareModalOpen = FALSE
    /\ srcListForCompare = <<>>
    /\ srcIndexForCompare = 0
    /\ aiListForCompare = <<>>
    /\ aiIndexForCompare = 0
    /\ selectedSources = <<>>
    /\ lastClickedIndex = 0
    /\ activeGenIndex = 0
    /\ generating = FALSE
    /\ modal = <<>>
    /\ signal = NoSignal

AppNext(cupids, events) ==
    \/ ListResponse
    \/ ListFails
    \/ SelectProduct(cupids)
    \/ ProductResponse
    \/ ProductFails
    \/ SourceClick(events)
    \/ GeneratedClick
    \/ GenerateClick
    \/ GenerateResponse
    \/ GenerateRefused
    \/ GenerateFails
    \/ CompareClick

ModalNext(deltas, clients) ==
    \/ Wheel(deltas)
    \/ MouseDown(clients)
    \/ MouseMove(clients)
    \/ MouseUp
    \/ ToggleSync
    \/ NextSrcClick
    \/ PrevSrcClick
    \/ NextAiClick
    \/ PrevAiClick
    \/ KeyDown
    \/ CloseClick

\* The whole application, under coarse inputs: product 1 and the last
\* product are selected, clicks carry no modifier key, one wheel step and
\* one pointer position are tried.
CoarseCupids == {1, NumProducts}
PlainClick == {[metaKey |-> FALSE, ctrlKey |-> FALSE, shiftKey |-> FALSE]}
Next == AppNext(CoarseCupids, PlainClick) \/ ModalNext(CoarseWheelDeltas, CoarsePointers)
Spec == Init /\ [][Next]_vars

\* One product on display, as after the list and the record of product 1
\* arrived with MaxGenerated generated images; from there the comparison
\* overlay is opened, used and closed.
SessionInit ==
    /\ generatedCount = [c \in Cupids |-> IF c = 1 THEN MaxGenerated ELSE 0]
    /\ productFetches = [c \in Cupids |-> 0]
    /\ generateRequests = <<>>
    /\ listFetches = 0
    /\ products = Cupids
    /\ loading = FALSE
    /\ selectedCupid = 1
    /\ currentProductData = ProductRecord(1, MaxGenerated)
    /\ compareModalOpen = FALSE
    /\ srcListForCompare = <<>>
    /\ srcIndexForCompare = 0
    /\ aiListForCompare = <<>>
    /\ aiIndexForCompare = 0
    /\ selectedSources = seedSelection(ProductRecord(1, MaxGenerated))
    /\ lastClickedIndex = 0
    /\ activeGenIndex = 0
    /\ generating = FALSE
    /\ modal = <<>>
    /\ signal = NoSignal

SessionNext == CompareClick \/ ModalNext(WheelDeltas, Pointers)
SessionSpec == SessionInit /\ [][SessionNext]_vars

\* Navigation: product 1 (two sources) or product 2 (one source) on display
\* with one to MaxCandidates generated images; thumbnails are clicked, the
\* overlay is opened, used under coarse inputs and closed.
NavInit ==
    /\ selectedCupid \in {1, 2}
    /\ generatedCount \in {[c \in Cupids |-> IF c = selectedCupid THEN n ELSE 0] :
                               n \in 1..MaxCandidates}
    /\ productFetches = [c \in Cupids |-> 0]
    /\ generateRequests = <<>>
    /\ listFetches = 0
    /\ products = Cupids
    /\ loading = FALSE
    /\ currentProductData = ProductRecord(selectedCupid, generatedCount[selectedCupid])
    /\ compareModalOpen = FALSE
    /\ srcListForCompare = <<>>
    /\ srcIndexForCompare = 0
    /\ aiListForCompare = <<>>
    /\ aiIndexForCompare = 0
    /\ selectedSources = seedSelection(currentProductData)
    /\ lastClickedIndex = 0
    /\ activeGenIndex = 0
    /\ generating = FALSE
    /\ modal = <<>>
    /\ signal = NoSignal

NavNext ==
    \/ SourceClick(PlainClick)
    \/ GeneratedClick
    \/ CompareClick
    \/ ModalNext(CoarseWheelDeltas, CoarsePointers)
NavSpec == NavInit /\ [][NavNext]_vars

\* Selection and generation: the application without the comparison
\* overlay; every product is selected and source thumbnails are clicked
\* under every combination of modifier keys.
SelectNext ==
    \/ ListResponse
    \/ ListFails
    \/ SelectProduct(Cupids)
    \/ ProductResponse
    \/ ProductFails
    \/ SourceClick(Modifiers)
    \/ GeneratedClick
    \/ GenerateClick
    \/ GenerateResponse
    \/ GenerateRefused
    \/ GenerateFails
SelectSpec == Init /\ [][SelectNext]_vars


\* Arrow buttons worked with the mouse: from the states of NavInit the
\* overlay is opened, an arrow button is pressed, the pointer moves, the
\* button is released.
ArrowNext ==
    \/ CompareClick
    \/ ArrowPress(Pointers)
    \/ MouseMove(Pointers)
    \/ ArrowRelease
    \/ ToggleSync
    \/ CloseClick
ArrowSpec == NavInit /\ [][ArrowNext]_vars


\* Records arriving under an open overlay: the list is loaded, product 1
\* has MaxGenerated generated images and product 2 one; products 1 and 2 are
\* selected, thumbnails are clicked, the overlay is opened, navigated and
\* closed while record requests are answered.
SwapInit ==
    /\ generatedCount = [c \in Cupids |-> IF c = 1 THEN MaxGenerated
                                          ELSE IF c = 2 THEN 1 ELSE 0]
    /\ productFetches = [c \in Cupids |-> 0]
    /\ generateRequests = <<>>
    /\ listFetches = 0
    /\ products = Cupids
    /\ loading = FALSE
    /\ selectedCupid = NoCupid
    /\ currentProductData = NoData
    /\ compareModalOpen = FALSE
    /\ srcListForCompare = <<>>
    /\ srcIndexForCompare = 0
    /\ aiListForCompare = <<>>
    /\ aiIndexForCompare = 0
    /\ selectedSources = <<>>
    /\ lastClickedIndex = 0
    /\ activeGenIndex = 0
    /\ generating = FALSE
    /\ modal = <<>>
    /\ signal = NoSignal

SwapNext ==
    \/ SelectProduct({1, 2})
    \/ ProductResponse
    \/ ProductFails
    \/ SourceClick(PlainClick)
    \/ GeneratedClick
    \/ CompareClick
    \/ NextSrcClick
    \/ PrevSrcClick
    \/ NextAiClick
    \/ PrevAiClick
    \/ KeyDown
    \/ CloseClick
SwapSpec == SwapInit /\ [][SwapNext]_vars


\* The application with the overlay opened and closed but not used, under
\* the assumption that the generation service answers every request: the
\* promise of the POST settles, and handleGenerate and handleGenerateClick
\* run on.
Answered == GenerateResponse \/ GenerateRefused \/ GenerateFails
LiveNext == AppNext(CoarseCupids, PlainClick) \/ CloseClick
LiveSpec == Init /\ [][LiveNext]_vars /\ WF_vars(Answered)


\* Choosing what to compare: from the state of SwapInit products 1 and 2
\* are selected, source thumbnails are clicked with and without modifier
\* keys, candidates are chosen, and the overlay is opened and closed.
PickNext ==
    \/ SelectProduct({1, 2})
    \/ ProductResponse
    \/ SourceClick(Modifiers)
    \/ GeneratedClick
    \/ CompareClick
    \/ CloseClick
PickSpec == SwapInit /\ [][PickNext]_vars


\* ================================================================= claims
\* The session after a step.
SessionAfter == modal'[1]
OtherPane(pane) == IF pane = "src" THEN "ai" ELSE "src"
PaneState(s, pane) == IF pane = "src" THEN s.srcState ELSE s.aiState
SameTranslate(a, b) == a.x = b.x /\ a.y = b.y

\* C1: in every state of an open session the scale of both panes lies
\* between 0.5 and 5.0 (500 and 5000 thousandths), at creation and after
\* every wheel event of any size and sign, synced or not.
C1_ScaleWithinBounds ==
    SessionOpen =>
        /\ 500 <= Session.srcState.scale /\ Session.srcState.scale <= 5000
        /\ 500 <= Session.aiState.scale /\ Session.aiState.scale <= 5000
\* Both bounds are met at once, in sync mode.
C1_Witness ==
    /\ SessionOpen
    /\ Session.isSynced
    /\ Session.srcState.scale = 5000
    /\ Session.aiState.scale = 500

\* C2: in sync mode both panes have the same scale after any wheel event,
\* whatever their scales were before.
C2_SyncZoomEqualScales ==
    [][(SessionOpen /\ Session.isSynced /\ Wheel(WheelDeltas))
          => SessionAfter.srcState.scale = SessionAfter.aiState.scale]_vars

\* C3: in sync mode both panes have the same translateX and the same
\* translateY after any pointer move of an active drag, begun on either
\* pane, whatever their translations were before.
C3_SyncDragEqualTranslations ==
    (SessionOpen /\ Session.isSynced /\ Session.draggingPane # NoPane) =>
        \A client \in Pointers :
            SameTranslate(handleMouseMove(Session, client).srcState,
                          handleMouseMove(Session, client).aiState)
\* Sync mode with a drag begun on the candidate pane while the translations
\* of the two panes differ.
C3_Witness ==
    /\ SessionOpen
    /\ Session.isSynced
    /\ Session.draggingPane = "ai"
    /\ ~SameTranslate(Session.srcState, Session.aiState)

\* C4: with sync off, a wheel event changes only the pane that received it
\* and a pointer move of an active drag only the pane the drag began on;
\* scale and translation of the other pane are unchanged.
C4_IndependentPanes ==
    (SessionOpen /\ ~Session.isSynced) =>
        /\ \A deltaY \in WheelDeltas, pane \in Panes :
               PaneState(handleWheel(Session, deltaY, pane), OtherPane(pane))
                   = PaneState(Session, OtherPane(pane))
        /\ Session.draggingPane # NoPane =>
               \A client \in Pointers :
                   PaneState(handleMouseMove(Session, client),
                             OtherPane(Session.draggingPane))
                       = PaneState(Session, OtherPane(Session.draggingPane))
\* Sync off, the source pane zoomed from 1.0 to 2.0 and dragged, the
\* candidate pane still at 1.0 and at the origin.
C4_Witness ==
    /\ SessionOpen
    /\ ~Session.isSynced
    /\ Session.srcState = [scale |-> 2000, x |-> 1, y |-> 2]
    /\ Session.aiState = [scale |-> 1000, x |-> 0, y |-> 0]

\* C5: toggling sync mode, in either direction, flips isSynced and leaves
\* both pane transforms as they were.
C5_ToggleKeepsTransforms ==
    SessionOpen =>
        /\ toggleSync(Session).isSynced = ~Session.isSynced
        /\ toggleSync(Session).srcState = Session.srcState
        /\ toggleSync(Session).aiState = Session.aiState
\* Sync was enabled on transforms that had diverged, and they still differ.
C5_Witness ==
    /\ SessionOpen
    /\ Session.isSynced
    /\ Session.srcState.scale # Session.aiState.scale
    /\ ~SameTranslate(Session.srcState, Session.aiState)

\* k calls of nextSrc, of nextAi, on a list of n images.
RECURSIVE NextSrcTimes(_, _, _)
NextSrcTimes(s, n, k) == IF k = 0 THEN s ELSE NextSrcTimes(nextSrc(s, n), n, k - 1)
RECURSIVE NextAiTimes(_, _, _)
NextAiTimes(s, n, k) == IF k = 0 THEN s ELSE NextAiTimes(nextAi(s, n), n, k - 1)

\* C6: next moves a cursor from i to (i + 1) mod n and prev to
\* (i - 1 + n) mod n, n being the length of the cursor's own list; n calls
\* of next return the cursor to where it was, prev from 0 yields n - 1, and
\* with n = 1 both leave the cursor at 0.
C6_Wraparound ==
    SessionOpen =>
        LET ns == Len(srcListForCompare)
            na == Len(aiListForCompare)
        IN  /\ nextSrc(Session, ns).srcIndex = (Session.srcIndex + 1) % ns
            /\ prevSrc(Session, ns).srcIndex = (Session.srcIndex - 1 + ns) % ns
            /\ nextAi(Session, na).aiIndex = (Session.aiIndex + 1) % na
            /\ prevAi(Session, na).aiIndex = (Session.aiIndex - 1 + na) % na
            /\ NextSrcTimes(Session, ns, ns).srcIndex = Session.srcIndex
            /\ NextAiTimes(Session, na, na).aiIndex = Session.aiIndex
            /\ Session.srcIndex = 0 => prevSrc(Session, ns).srcIndex = ns - 1
            /\ Session.aiIndex = 0 => prevAi(Session, na).aiIndex = na - 1
            /\ ns = 1 => (nextSrc(Session, ns) = Session /\ prevSrc(Session, ns) = Session)
            /\ na = 1 => (nextAi(Session, na) = Session /\ prevAi(Session, na) = Session)
\* With four candidates, the cursor opened at 0 stands at 3, from where next
\* wraps to 0.
C6_Witness ==
    /\ SessionOpen
    /\ Len(aiListForCompare) = 4
    /\ aiIndexForCompare = 0
    /\ Session.aiIndex = 3

\* C7: source navigation leaves the candidate cursor unchanged and candidate
\* navigation leaves the source cursor unchanged.
C7_AxesIndependent ==
    SessionOpen =>
        LET ns == Len(srcListForCompare)
            na == Len(aiListForCompare)
        IN  /\ nextSrc(Session, ns).aiIndex = Session.aiIndex
            /\ prevSrc(Session, ns).aiIndex = Session.aiIndex
            /\ nextAi(Session, na).srcIndex = Session.srcIndex
            /\ prevAi(Session, na).srcIndex = Session.srcIndex
\* Both cursors have left the positions the session was opened at.
C7_Witness ==
    /\ SessionOpen
    /\ Session.srcIndex # srcIndexForCompare
    /\ Session.aiIndex # aiIndexForCompare

\* C8: while the session is open a keydown of Escape is handled and closes
\* it, ArrowRight moves the candidate cursor forward and ArrowLeft backward
\* and change nothing else, and no key changes the source cursor; while no
\* session is open no keydown is handled.
C8_KeyBindings ==
    LET na == Len(aiListForCompare)
    IN  /\ SessionOpen =>
               /\ ENABLED KeyDownOn("Escape")
               /\ ~ENABLED (KeyDownOn("Escape") /\ (compareModalOpen' \/ modal' # <<>>))
               /\ handleKeyNav(Session, "ArrowRight", na)
                      = [Session EXCEPT !.aiIndex = (@ + 1) % na]
               /\ handleKeyNav(Session, "ArrowLeft", na)
                      = [Session EXCEPT !.aiIndex = (@ - 1 + na) % na]
               /\ \A key \in Keys :
                      handleKeyNav(Session, key, na).srcIndex = Session.srcIndex
        /\ ~SessionOpen => ~ENABLED KeyDown
\* The candidate cursor has moved while the source cursor is where the
\* session was opened.
C8_Witness ==
    /\ SessionOpen
    /\ Session.aiIndex # aiIndexForCompare
    /\ Session.srcIndex = srcIndexForCompare

\* A list of the record on display is empty.
EmptyListOnDisplay ==
    \/ Len(currentProductData.ghost_images) = 0
    \/ Len(currentProductData.generated_images) = 0

C10_OpenCloseTransitions ==
    /\ ~compareModalOpen
    /\ [][/\ (~compareModalOpen /\ compareModalOpen') => CompareClick
          /\ (compareModalOpen /\ ~compareModalOpen')
                 => (CloseClick \/ KeyDownOn("Escape"))
          /\ compareModalOpen' <=> SessionOpen']_vars
\* The session is open and zoomed while a generation and a product request
\* are in flight.
C10_Witness ==
    /\ compareModalOpen
    /\ SessionOpen
    /\ Session.srcState.scale = 5000
    /\ Len(generateRequests) = 1
    /\ \E c \in Cupids : productFetches[c] > 0

\* The members of a list.
Range(list) == {list[k] : k \in 1..Len(list)}
\* The identity transform.
Identity == [scale |-> 1000, x |-> 0, y |-> 0]

\* C11: whenever no session is open and Compare can be pressed, pressing it
\* opens a session whose two pane transforms are the identity and in which
\* no drag is active, whatever the session closed before looked like.
C11_OpenStartsAtIdentity ==
    (~SessionOpen /\ CompareEnabled) =>
        /\ ENABLED CompareClick
        /\ ~ENABLED (CompareClick /\ ~(/\ Len(modal') = 1
                                       /\ modal'[1].srcState = Identity
                                       /\ modal'[1].aiState = Identity
                                       /\ modal'[1].draggingPane = NoPane))
\* A session was opened and closed again (its lists are still held by App),
\* and Compare can be pressed.
C11_Witness ==
    /\ ~SessionOpen
    /\ Len(aiListForCompare) > 0
    /\ Len(srcListForCompare) > 0
    /\ CompareEnabled

\* The source images of the record on display.
Sources == currentProductData.ghost_images
\* The selection with the membership of x flipped.
Toggled(S, x) == IF x \in S THEN S \ {x} ELSE S \cup {x}

\* C12: a click without modifier key on any source image x can be made and
\* leaves exactly <<x>> selected, whatever was selected before.
C12_ExclusiveSelectSingleton ==
    DetailMounted =>
        /\ \A k \in 1..Len(Sources) :
               ENABLED (SourceClick(PlainClick) /\ selectedSources' = <<Sources[k]>>)
        /\ ~ENABLED (SourceClick(PlainClick)
                        /\ selectedSources' # <<Sources[lastClickedIndex' + 1]>>)
\* Two source images are selected while the product's record is on display.
C12_Witness ==
    /\ DetailMounted
    /\ Len(selectedSources) = 2
    /\ Len(Sources) = 2

\* C13: for the selection S of any reachable state and any source image x,
\* one toggle of x adds x when it is absent and removes it when it is
\* present, and two toggles of x give a selection with the members of S.
C13_ToggleInvolution ==
    DetailMounted =>
        \A k \in 1..Len(Sources) :
            LET x == Sources[k]
                once == clickSelection(selectedSources, x, TRUE)
                twice == clickSelection(once, x, TRUE)
            IN  /\ Range(once) = Toggled(Range(selectedSources), x)
                /\ Range(twice) = Range(selectedSources)
                /\ Len(once) = Cardinality(Range(once))
\* The first source image was toggled off and on again: it now stands
\* behind the second one.
C13_Witness ==
    /\ DetailMounted
    /\ selectedSources = <<12, 11>>

\* C14: whenever the record on display changes to that of another product,
\* the selection becomes the first source image of the new record, or
\* nothing when it has none, the active candidate cursor becomes 0, and no
\* image selected before is selected after.
C14_SwitchReseeds ==
    [][(currentProductData'.cupid_name # currentProductData.cupid_name) =>
          /\ Len(selectedSources') <= 1
          /\ Range(selectedSources')
                 = IF Len(currentProductData'.ghost_images) > 0
                   THEN {currentProductData'.ghost_images[1]} ELSE {}
          /\ activeGenIndex' = 0
          /\ lastClickedIndex' = 0
          /\ Range(selectedSources') \cap Range(selectedSources) = {}]_vars
\* A product without source images is on display with nothing selected,
\* another product's record having been on display before (it still has a
\* request in flight).
C14_Witness ==
    /\ DetailMounted
    /\ Sources = <<>>
    /\ selectedSources = <<>>
    /\ productFetches[1] > 0

\* C15: in every state each selected image is, by its locator, one of the
\* source images of the record on display.
C15_SelectionWithinSources ==
    Range(selectedSources) \subseteq Range(Sources)
\* Product 2 is on display after a refresh that followed a generation, its
\* only source image selected.
C15_Witness ==
    /\ DetailMounted
    /\ currentProductData.cupid_name = 2
    /\ Len(currentProductData.generated_images) > 0
    /\ selectedSources = <<21>>

\* C16: a click on a source image x with any of the meta, control and shift
\* keys held flips the membership of x in the selection; a click with none
\* of them held leaves exactly x selected.
C16_ModifierDecides ==
    DetailMounted =>
        \A e \in Modifiers :
            /\ Len(Sources) > 0 => ENABLED SourceClick({e})
            /\ ~ENABLED (SourceClick({e})
                            /\ LET x == Sources[lastClickedIndex' + 1]
                               IN  Range(selectedSources')
                                       # IF e \in PlainClick
                                         THEN {x}
                                         ELSE Toggled(Range(selectedSources), x))
\* The second source image alone is selected and the last click was on the
\* first: plain click A, Cmd-click B, Cmd-click A.
C16_Witness ==
    /\ DetailMounted
    /\ selectedSources = <<12>>
    /\ lastClickedIndex = 0

\* C17, as claimed: while nothing is selected the Generate button is
\* disabled, and no request in flight carries an empty list of sources.
C17_NoGenerateOnEmptySelection ==
    /\ (DetailMounted /\ ~hasSelection) => ~GenerateEnabled
    /\ \A k \in 1..Len(generateRequests) :
           Len(generateRequests[k].active_sources) > 0

\* C18: at most one generation request is in flight, the in-flight flag is
\* set exactly while one is, and while it is set Generate cannot be pressed.
C18_OneRequestInFlight ==
    /\ Len(generateRequests) <= 1
    /\ generating <=> Len(generateRequests) = 1
    /\ generating => ~ENABLED GenerateClick
\* A request is in flight for a product other than the one now selected,
\* while a comparison session is open.
C18_Witness ==
    /\ generating
    /\ Len(generateRequests) = 1
    /\ generateRequests[1].cupid_name # selectedCupid
    /\ SessionOpen

C20_EveryFailureSignalled ==
    [][(ListFails \/ ProductFails \/ GenerateFails \/ GenerateRefused)
          => signal' = Alert]_vars

\* The product a generation request in flight was issued for.
RequestedCupid == generateRequests[1].cupid_name

C22_SessionIgnoresGeneration ==
    /\ Len(generateRequests) > 0 =>
           /\ ENABLED GenerateResponse
           /\ ~ENABLED ((CompareClick \/ CloseClick \/ KeyDownOn("Escape"))
                           /\ (generateRequests' # generateRequests
                                  \/ generating' # generating))
    /\ (~SessionOpen /\ CompareEnabled) =>
           ~ENABLED (CompareClick
                       /\ modal' # <<[srcIndex |-> lastClickedIndex,
                                      aiIndex |-> activeGenIndex,
                                      srcState |-> Identity,
                                      aiState |-> Identity,
                                      isSynced |-> FALSE,
                                      draggingPane |-> NoPane,
                                      dragStart |-> [x |-> 0, y |-> 0],
                                      pressedArrow |-> NoArrow]>>)
\* A request is in flight, a session was opened and closed again, and
\* Compare can be pressed for the same product.
C22_Witness ==
    /\ generating
    /\ Len(generateRequests) = 1
    /\ ~SessionOpen
    /\ Len(aiListForCompare) > 0
    /\ CompareEnabled
    /\ currentProductData.cupid_name = RequestedCupid

\* C23, as claimed: from the press of an arrow button to its release no
\* drag is active and no pane translation changes.
C23_ArrowNeverDrags ==
    [][(SessionOpen /\ SessionOpen'
          /\ (Session.pressedArrow # NoArrow \/ SessionAfter.pressedArrow # NoArrow))
          => /\ SessionAfter.draggingPane = NoPane
             /\ SameTranslate(SessionAfter.srcState, Session.srcState)
             /\ SameTranslate(SessionAfter.aiState, Session.aiState)]_vars

\* C24, as claimed: in every state with an open session both cursors lie
\* within their lists.
C24_CursorsInRange ==
    SessionOpen =>
        /\ 0 <= Session.srcIndex /\ Session.srcIndex < Len(srcListForCompare)
        /\ 0 <= Session.aiIndex /\ Session.aiIndex < Len(aiListForCompare)

\* C25: a wheel event sets the scale of the pane that received it to
\* clamp(old scale - deltaY * 0.001, 0.5, 5.0), in thousandths
\* clamp(old - deltaY, 500, 5000), computed from the pane's current scale,
\* each event clamped on its own: from scale 5.0 a zoom-in of any size
\* followed by a zoom-out of d yields 5.0 - d (0.5 where that is lower),
\* the overshoot of the zoom-in being lost.
C25_ZoomClampedPerEvent ==
    SessionOpen =>
        \A pane \in Panes :
            /\ \A deltaY \in WheelDeltas :
                   PaneState(handleWheel(Session, deltaY, pane), pane).scale
                       = Min(Max(500, PaneState(Session, pane).scale - deltaY), 5000)
            /\ PaneState(Session, pane).scale = 5000 =>
                   \A zoomIn \in {d \in WheelDeltas : d < 0},
                      zoomOut \in {d \in WheelDeltas : d > 0} :
                       PaneState(handleWheel(handleWheel(Session, zoomIn, pane),
                                             zoomOut, pane), pane).scale
                           = Max(500, 5000 - zoomOut)
\* The candidate pane came down from the upper bound by one zoom-out of
\* 1.0 while the source pane was left at the lower bound.
C25_Witness ==
    /\ SessionOpen
    /\ ~Session.isSynced
    /\ Session.aiState.scale = 4000
    /\ Session.srcState.scale = 500

\* C26: a wheel event changes translateX and translateY of neither pane,
\* in sync or independent mode, with or without an active drag.
C26_ZoomKeepsTranslation ==
    SessionOpen =>
        /\ \A deltaY \in WheelDeltas, pane \in Panes :
               /\ SameTranslate(handleWheel(Session, deltaY, pane).srcState,
                                Session.srcState)
               /\ SameTranslate(handleWheel(Session, deltaY, pane).aiState,
                                Session.aiState)
        /\ ~ENABLED (/\ Wheel(WheelDeltas)
                     /\ \/ ~SameTranslate(SessionAfter.srcState, Session.srcState)
                        \/ ~SameTranslate(SessionAfter.aiState, Session.aiState))
\* Sync mode, a drag of the source pane in progress, both panes moved off
\* the origin and then zoomed to 2.0.
C26_Witness ==
    /\ SessionOpen
    /\ Session.isSynced
    /\ Session.draggingPane = "src"
    /\ Session.srcState = [scale |-> 2000, x |-> 1, y |-> 2]
    /\ Session.aiState = [scale |-> 2000, x |-> 1, y |-> 2]

\* C27: a drag begun on pane P with the pointer at p0 while P's translation
\* is t0 puts P at exactly t0 + (p - p0) on a move to p, whether or not
\* another move came in between.
C27_DragIsAbsolute ==
    SessionOpen =>
        \A pane \in Panes, p0 \in Pointers, p \in Pointers, q \in Pointers :
            LET t0 == PaneState(Session, pane)
                began == handleMouseDown(Session, p0, pane)
                direct == PaneState(handleMouseMove(began, p), pane)
                via == PaneState(handleMouseMove(handleMouseMove(began, q), p), pane)
            IN  /\ direct.x = t0.x + (p[1] - p0[1])
                /\ direct.y = t0.y + (p[2] - p0[2])
                /\ via = direct
\* A drag of the candidate pane begun at pointer (1, 2) from the origin has
\* followed the pointer back to (0, 0).
C27_Witness ==
    /\ SessionOpen
    /\ ~Session.isSynced
    /\ Session.draggingPane = "ai"
    /\ Session.dragStart = [x |-> 1, y |-> 2]
    /\ Session.aiState.x = -1
    /\ Session.aiState.y = -2

\* C28: a pointer move while no drag is active changes nothing of the
\* session, in sync or independent mode.
C28_MoveWithoutDragIsNoOp ==
    (SessionOpen /\ Session.draggingPane = NoPane) =>
        /\ \A client \in Pointers : handleMouseMove(Session, client) = Session
        /\ ~ENABLED (MouseMove(Pointers) /\ modal' # modal)
\* No drag is active, in sync mode, after a drag that left both panes off
\* the pointer positions a move could bring them to.
C28_Witness ==
    /\ SessionOpen
    /\ Session.isSynced
    /\ Session.draggingPane = NoPane
    /\ Session.srcState.x = -1
    /\ Session.aiState.x = -1

\* C29: pointer up, or the pointer leaving the overlay, sets draggingPane
\* to none and changes nothing else; a second one changes nothing, and
\* with no drag active the whole session is left as it was.
C29_EndDragClearsDragOnly ==
    SessionOpen =>
        /\ handleMouseUp(Session).draggingPane = NoPane
        /\ [handleMouseUp(Session) EXCEPT !.draggingPane = Session.draggingPane]
               = Session
        /\ handleMouseUp(handleMouseUp(Session)) = handleMouseUp(Session)
        /\ ~ENABLED (MouseUp /\ SessionAfter # [Session EXCEPT !.draggingPane = NoPane])
        /\ Session.draggingPane = NoPane => ~ENABLED (MouseUp /\ modal' # modal)
\* A drag of the zoomed source pane has ended away from the origin.
C29_Witness ==
    /\ SessionOpen
    /\ ~Session.isSynced
    /\ Session.draggingPane = NoPane
    /\ Session.srcState = [scale |-> 2000, x |-> 1, y |-> 2]
    /\ Session.dragStart = [x |-> -1, y |-> -2]

\* C30: the transition of the panes is 'none' exactly when a drag is
\* active and the easing transition exactly when none is.
C30_TransitionOffWhileDragging ==
    SessionOpen =>
        /\ getStyleTransition(Session) = "none" <=> Session.draggingPane # NoPane
        /\ getStyleTransition(Session) = "transform 0.1s ease-out"
               <=> Session.draggingPane = NoPane
\* A drag of the source pane, zoomed out to the lower bound, is active and
\* the transition is off.
C30_Witness ==
    /\ SessionOpen
    /\ Session.draggingPane = "src"
    /\ Session.srcState.scale = 500
    /\ getStyleTransition(Session) = "none"

\* C31, as claimed: every generation request in flight carries source
\* images of the product it names only.
C31_RequestSourcesOfItsProduct ==
    \A k \in 1..Len(generateRequests) :
        Range(generateRequests[k].active_sources)
            \subseteq Range(GhostImagesOf(generateRequests[k].cupid_name))

\* C32, as claimed: a record on display is that of the selected product
\* once no record request is outstanding.
C32_DisplayedIsSelected ==
    (DetailMounted /\ \A c \in Cupids : productFetches[c] = 0)
        => currentProductData.cupid_name = selectedCupid

\* C33, as claimed: the completion of a generation request, answered or
\* rejected, leaves the selected product as it was.
C33_CompletionKeepsSelected ==
    [][(GenerateResponse \/ GenerateRefused \/ GenerateFails)
          => selectedCupid' = selectedCupid]_vars

\* C34: provided the generation service answers, every state with the
\* in-flight flag set leads to one with the flag cleared and the Generate
\* button enabled, whatever the user does in between.
C34_FlagEventuallyCleared == generating ~> (~generating /\ GenerateEnabled)
\* A second image of product 1 was generated, the flag is cleared and the
\* button enabled again, and the user has opened a comparison meanwhile.
C34_Witness ==
    /\ generatedCount[1] = 2
    /\ ~generating
    /\ GenerateEnabled
    /\ SessionOpen

\* C35, as claimed: whenever Compare opens a session, the source image at
\* the initial source index is one of the selected images.
C35_OpensOnSelectedSource ==
    [][(CompareClick /\ ~compareModalOpen)
          => srcListForCompare'[srcIndexForCompare' + 1] \in Range(selectedSources)]_vars

\* C36, as claimed: while a session stays open its source list and its
\* candidate list never change, and the arrival of a product record changes
\* neither of them nor anything of the session.
C36_ListsFrozenWhileOpen ==
    [][(SessionOpen /\ SessionOpen')
          => /\ srcListForCompare' = srcListForCompare
             /\ aiListForCompare' = aiListForCompare
             /\ ProductResponse => modal' = modal]_vars

\* C37, as claimed: a pointer move at the position where a drag began, on
\* either pane, leaves the translation of both panes unchanged, in sync
\* mode as in independent mode.
C37_DragStartNoJump ==
    SessionOpen =>
        \A pane \in Panes, p \in Pointers :
            LET moved == handleMouseMove(handleMouseDown(Session, p, pane), p)
            IN  /\ SameTranslate(moved.srcState, Session.srcState)
                /\ SameTranslate(moved.aiState, Session.aiState)
\* C37, amended: a pointer move at the position where a drag began leaves
\* the pane the drag began on unchanged; the other pane is unchanged in
\* independent mode and takes the translation of the pane the drag began on
\* in sync mode, its scale unchanged.
C37_DragStartMovesOnlySyncedOther ==
    SessionOpen =>
        \A pane \in Panes, p \in Pointers :
            LET moved == handleMouseMove(handleMouseDown(Session, p, pane), p)
            IN  /\ PaneState(moved, pane) = PaneState(Session, pane)
                /\ ~Session.isSynced =>
                       PaneState(moved, OtherPane(pane)) = PaneState(Session, OtherPane(pane))
                /\ Session.isSynced =>
                       /\ SameTranslate(PaneState(moved, OtherPane(pane)),
                                        PaneState(Session, pane))
                       /\ PaneState(moved, OtherPane(pane)).scale
                              = PaneState(Session, OtherPane(pane)).scale
\* In sync mode a drag has begun on the source pane at pointer (1, 2) while
\* the translations of the two panes differ, and no move has come yet.
C37_Witness ==
    /\ SessionOpen
    /\ Session.isSynced
    /\ Session.draggingPane = "src"
    /\ Session.dragStart = [x |-> 1 - Session.srcState.x, y |-> 2 - Session.srcState.y]
    /\ ~SameTranslate(Session.srcState, Session.aiState)

\* The record of the product on display arrives once more.
SameProductArrives ==
    ProductResponse /\ currentProductData'.cupid_name = currentProductData.cupid_name

\* C38: the selection is re-seeded on every arrival of a record, also of
\* the product already on display (as refetched after a generation): while
\* such a record is outstanding it can arrive, and its arrival leaves the
\* first source image alone selected, or nothing when there is none, and
\* the active candidate cursor at 0, whatever was selected and chosen.
C38_ReseedOnEveryArrival ==
    (DetailMounted /\ productFetches[currentProductData.cupid_name] > 0) =>
        /\ ENABLED SameProductArrives
        /\ ~ENABLED (/\ SameProductArrives
                     /\ ~(/\ selectedSources'
                                = IF Len(currentProductData'.ghost_images) > 0
                                  THEN <<currentProductData'.ghost_images[1]>>
                                  ELSE <<>>
                          /\ activeGenIndex' = 0))
\* A generation for product 1, requested with both of its source images
\* selected, has completed; the refetch of its record is outstanding while
\* the record on display is still the old one with the selection the user
\* made.
C38_Witness ==
    /\ DetailMounted
    /\ currentProductData.cupid_name = 1
    /\ selectedSources = <<11, 12>>
    /\ generatedCount[1] = 2
    /\ Len(currentProductData.generated_images) = 1
    /\ productFetches[1] > 0
    /\ generateRequests = <<>>

\* The view state navigation has no business with.
ViewState(s) == <<s.srcState, s.aiState, s.isSynced, s.draggingPane>>

\* C39: next and prev on either axis, by arrow button or by arrow key,
\* leave both pane transforms, isSynced and draggingPane as they were, and a
\* pointer move never changes the scale of either pane.
C39_NavigationAndDragFrames ==
    SessionOpen =>
        /\ \A n \in {Len(srcListForCompare), Len(aiListForCompare)} :
               /\ ViewState(nextSrc(Session, n)) = ViewState(Session)
               /\ ViewState(prevSrc(Session, n)) = ViewState(Session)
               /\ ViewState(nextAi(Session, n)) = ViewState(Session)
               /\ ViewState(prevAi(Session, n)) = ViewState(Session)
        /\ ~ENABLED (/\ NextSrcClick \/ PrevSrcClick \/ NextAiClick \/ PrevAiClick
                        \/ KeyDownOn("ArrowLeft") \/ KeyDownOn("ArrowRight")
                     /\ ViewState(SessionAfter) # ViewState(Session))
        /\ \A client \in Pointers :
               /\ handleMouseMove(Session, client).srcState.scale = Session.srcState.scale
               /\ handleMouseMove(Session, client).aiState.scale = Session.aiState.scale
        /\ ~ENABLED (/\ MouseMove(Pointers)
                     /\ \/ SessionAfter.srcState.scale # Session.srcState.scale
                        \/ SessionAfter.aiState.scale # Session.aiState.scale)
\* In sync mode, with a drag of the candidate pane in progress and both
\* panes zoomed in to the upper bound and moved, the second source image has
\* been navigated to.
C39_Witness ==
    /\ SessionOpen
    /\ Session.isSynced
    /\ Session.draggingPane = "ai"
    /\ Session.srcIndex = 1
    /\ Session.srcState = [scale |-> 5000, x |-> 1, y |-> 2]
    /\ Session.aiState = [scale |-> 5000, x |-> 1, y |-> 2]

====
